---- MODULE Spec2Model ----
(***************************************************************************)
(* A model of the rust-arena bump allocator: the single-owner chunk        *)
(* (SingleArena), the concurrent chunk (AtomicSingleArena), the growable   *)
(* Arena over SingleArena chunks, and the ArenaBox handle.                 *)
(*                                                                         *)
(* Memory is modelled by the log of std::ptr::write calls (`writes`): the  *)
(* byte at an address holds the value of the last write that covers it.    *)
(* Addresses and sizes are usize values; usize arithmetic is modelled at   *)
(* the narrowest pointer width Rust supports (16 bits), which keeps every  *)
(* wrapped value inside TLC's integers.                                    *)
(***************************************************************************)
EXTENDS Integers, Sequences, FiniteSets, TLC

VARIABLES
    chunks,     \* the chunk list: <<[size, start_pointer, free_pointer, allocations]>>
    writes,     \* log of std::ptr::write calls: <<[addr, size, val]>>
    boxes,      \* every ArenaBox handed out: <<[inner, arena, size, align, val, state, via]>>
    result,     \* what the last allocate call to return has returned
    build,      \* "debug" (overflow checks panic) or "release" (arithmetic wraps)
    panicked,   \* set of threads that unwound from a panic
    pc,         \* concurrent chunk: each thread's position inside allocate
    req,        \* concurrent chunk: the object each thread is allocating
    ptr_lock,   \* concurrent chunk: holder of the free_pointer mutex (0 = free)
    allocations_lock, \* concurrent chunk: state of the allocations mutex (0 = sound)
    owner,      \* concurrent chunk: each owner's (clone's) life-cycle state
    fp_strong,  \* Arc::strong_count of the shared free_pointer
    deallocs,   \* how many times deallocate_arena ran on the shared buffer
    chunked,    \* the Arena<C> of chunked.rs that is given the same calls as the Arena
    plan        \* the caller's scenario (who allocates what, how many times)

vars == <<chunks, writes, boxes, result, build, panicked, pc, req, ptr_lock,
          allocations_lock, owner, fp_strong, deallocs, chunked, plan>>

---------------------------------------------------------------------------
(* Bounds of the model. *)

\* capacities tried for a fixed chunk: 1 .. MaxChunkSize
MaxChunkSize == 6
\* total number of handles (allocations that returned a box) in one run
MaxBoxes == 3
\* threads sharing one concurrent chunk
NThreads == 2
\* handles handed out by one concurrent chunk in one run
MaxAtomicBoxes == 2
\* handles handed out by one Arena in one run
MaxArenaBoxes == 3
\* the rounds scenario: rounds per thread 1..MaxRounds
MaxRounds == 2
\* owners (the first AtomicSingleArena and its clones) in one run
NOwners == 4

\* direct adjust_allocation_count calls a caller makes
MaxAdjusts == 3
\* remaining_capacity calls a thread makes on the concurrent chunk
MaxQueries == 1
\* the fill scenario: the loop goes on until the first chunk is full and
\* FillExtra more objects have been allocated
FillExtra == 1

---------------------------------------------------------------------------
(* usize arithmetic *)

UsizeBits == 16

UsizeModulus == 2 ^ UsizeBits

\* Option::None of a checked operation
NoneVal == 0 - 1

\* usize::checked_add
CheckedAdd(a, b) == IF a + b < UsizeModulus THEN a + b ELSE NoneVal

\* usize subtraction as a release build computes it (two's complement wrap)
WrappingSub(a, b) == (a - b + UsizeModulus) % UsizeModulus

CheckedAddSigned_Wrapping(a, d) == (a + d) % UsizeModulus

\* usize::checked_add_signed
CheckedAddSigned(a, d) == IF a + d >= 0 /\ a + d < UsizeModulus THEN a + d ELSE NoneVal

---------------------------------------------------------------------------
(* Object types: size_of::<T>() and align_of::<T>().  Rust guarantees that  *)
(* the alignment is a power of two and the size a multiple of it.           *)

TUnit == [size |-> 0, align |-> 1]
TU8   == [size |-> 1, align |-> 1]
TU16  == [size |-> 2, align |-> 2]
TU32  == [size |-> 4, align |-> 4]
TU8x2 == [size |-> 2, align |-> 1]

SmallTypes == {TUnit, TU8, TU16, TU32}

---------------------------------------------------------------------------
(* Chunk operations shared by every chunk type (trait ArenaChunk). *)

NewChunk_CursorAtEnd(size, start) ==
    [size |-> size, start_pointer |-> start, free_pointer |-> start + size, allocations |-> 0]

\* new_unchecked(size): the buffer intialise_chunk reserved starts at `start`
NewChunk(size, start) ==
    [size |-> size, start_pointer |-> start, free_pointer |-> start, allocations |-> 0]

AlignOffset_Zero(ptr, align) == 0

\* <*mut u8>::align_offset(align): bytes to the next multiple of align
AlignOffset(ptr, align) == (align - (ptr % align)) % align

ChunkEnd(c) == c.start_pointer + c.size

\* remaining_capacity() overflows its subtraction once the cursor is past the end
RemainingUnderflows(c) == c.free_pointer > ChunkEnd(c)

RemainingCapacity(c) == WrappingSub(ChunkEnd(c), c.free_pointer)

BumpedPointer_NoPadding(c, byte_size, offset) == c.free_pointer + byte_size

BumpedPointer_Stays(c, byte_size, offset) == c.free_pointer

\* write_to_memory: the cursor after the object
BumpedPointer(c, byte_size, offset) == c.free_pointer + byte_size + offset

ObjectPointer_AtStart(c, offset) == c.start_pointer + offset

\* write_to_memory: where the object is written
ObjectPointer(c, offset) == c.free_pointer + offset

\* adjust_allocation_count: None is the .expect() panic
AdjustedCount(c, count) == CheckedAddSigned(c.allocations, count)

\* write_to_memory's effect on the chunk (cursor and live count)
WrittenChunk(c, byte_size, offset) ==
    [c EXCEPT !.free_pointer = BumpedPointer(c, byte_size, offset),
              !.allocations = AdjustedCount(c, 1)]

\* the std::ptr::write of write_to_memory
WriteRecord(c, T, offset, v) ==
    [addr |-> ObjectPointer(c, offset), size |-> T.size, val |-> v]

\* ArenaBox::new(&self, object_pointer)
NewBox(ci, c, T, offset, v, t) ==
    [inner |-> ObjectPointer(c, offset), arena |-> ci, size |-> T.size,
     align |-> T.align, val |-> v, state |-> "live", via |-> t, teardowns |-> 0]

ZeroSizedBox_Attached(T, v, t) ==
    [inner |-> T.align, arena |-> 1, size |-> 0,
     align |-> T.align, val |-> v, state |-> "live", via |-> t, teardowns |-> 1]

\* ArenaBox::new_zero_sized(): NonNull::dangling(), no arena.  The object given
\* to allocate is not stored: it is dropped when allocate returns.
ZeroSizedBox(T, v, t) ==
    [inner |-> T.align, arena |-> 0, size |-> 0,
     align |-> T.align, val |-> v, state |-> "live", via |-> t, teardowns |-> 1]

\* ret: "some" (a box), "none" (no capacity) or "panic"
Ret(op, ret, who, box) ==
    [op |-> op, ret |-> ret, who |-> who]

---------------------------------------------------------------------------
(* Memory as the write log reads back. *)

RangeOf(addr, size) == addr .. (addr + size - 1)

Overlap(a1, s1, a2, s2) == s1 > 0 /\ s2 > 0 /\ a1 < a2 + s2 /\ a2 < a1 + s1

Covers(w, a) == w.addr <= a /\ a < w.addr + w.size

\* index of the last write covering address a (0: never written)
LastWriter(a) ==
    LET S == {i \in 1..Len(writes) : Covers(writes[i], a)}
    IN IF S = {} THEN 0 ELSE CHOOSE i \in S : \A j \in S : j <= i

\* a byte no write has covered
Uninit == 0 - 2

\* the bytes of an object no longer hold one value
Torn == 0 - 3

ByteAt(a) == IF LastWriter(a) = 0 THEN Uninit ELSE writes[LastWriter(a)].val

\* the write that placed box b's object
OwnWrite(b) ==
    CHOOSE i \in 1..Len(writes) :
        writes[i].addr = b.inner /\ writes[i].size = b.size /\ writes[i].val = b.val

\* Deref for ArenaBox: the value its bytes hold now (Torn if a later write of
\* another value reached into them)
Deref(b) ==
    IF b.size = 0 THEN b.val
    ELSE IF \A j \in (OwnWrite(b) + 1)..Len(writes) :
               Overlap(writes[j].addr, writes[j].size, b.inner, b.size)
                   => writes[j].val = b.val
         THEN b.val
         ELSE Torn

---------------------------------------------------------------------------
(* The caller: values stored are the ordinal of the allocation. *)

NextValue == Len(writes) + 1

Builds == {"debug", "release"}

Threads == 1 .. NThreads

\* the one thread of the single-owner programs
Main == CHOOSE t \in Threads : \A u \in Threads : t <= u

AllIdle == [t \in Threads |-> "idle"]

NoRequest == [t \in Threads |-> TUnit]

\* the caller's scenario: its kind and, for "rounds", the object type, the rounds
\* each thread makes, the calls each thread has made, and whether allocation was
\* attempted again after the rounds
Plan(kind, type, rounds) ==
    [kind |-> kind, type |-> type, rounds |-> rounds,
     done |-> [t \in Threads |-> 0], extra |-> FALSE]

\* Arena<C>::new(): an empty LinkedList; panicked: a call on it has unwound
NoChunked == [chunks |-> <<>>, panicked |-> FALSE]

\* Chunks are allocated with Layout { size, align: 1 }: the start may have any
\* residue modulo the largest alignment in use.
MaxAlign(types) == CHOOSE a \in {T.align : T \in types} : \A T \in types : T.align <= a

HeapLow == 2 * MaxAlign(SmallTypes)

ChunkStarts == HeapLow .. (HeapLow + MaxAlign(SmallTypes) - 1)

ChunkSizes == 1 .. MaxChunkSize

\* capacities tried for the concurrent chunk (the even ones)
AtomicSizes == {n \in ChunkSizes : n % 2 = 0}

\* the largest capacity tried for both kinds of chunk
CountSize == CHOOSE n \in AtomicSizes : \A m \in AtomicSizes : m <= n

---------------------------------------------------------------------------
(* SingleArena (single_chunk.rs) *)

SingleAllocateNone_Bumps(offset) ==
    /\ result' = Ret("allocate", "none", Main, 0)
    /\ chunks' = [chunks EXCEPT ![1].free_pointer = @ + offset]
    /\ UNCHANGED <<writes, boxes, panicked>>

\* the `else { None }` branch and the `?` of allocate: nothing but the result
SingleAllocateNone(offset) ==
    /\ result' = Ret("allocate", "none", Main, 0)
    /\ UNCHANGED <<chunks, writes, boxes, panicked>>

SingleFits_NoPadding(c, T, offset) == T.size <= RemainingCapacity(c)

\* allocation_size.checked_add(offset)? <= self.remaining_capacity()
SingleFits(c, T, offset) ==
    /\ CheckedAdd(T.size, offset) # NoneVal
    /\ CheckedAdd(T.size, offset) <= RemainingCapacity(c)

\* write_to_memory on chunk ci of the chunk list cs, returning the box
WriteToMemory(cs, ci, T, offset, v, t) ==
    LET c == cs[ci] IN
    /\ writes' = Append(writes, WriteRecord(c, T, offset, v))
    /\ IF AdjustedCount(c, 1) = NoneVal
       THEN /\ chunks' = [cs EXCEPT ![ci].free_pointer = BumpedPointer(c, T.size, offset)]
            /\ panicked' = panicked \cup {t}
            /\ result' = Ret("allocate", "panic", t, 0)
            /\ UNCHANGED boxes
       ELSE /\ chunks' = [cs EXCEPT ![ci] = WrittenChunk(c, T.size, offset)]
            /\ boxes' = Append(boxes, NewBox(ci, c, T, offset, v, t))
            /\ result' = Ret("allocate", "some", t, Len(boxes) + 1)
            /\ UNCHANGED panicked

\* the caller's side of SingleArena::allocate: which calls the scenario makes.
\* In the "serial" scenario (single_allocation) the caller allocates objects of
\* one type in a loop and unwraps each result, so the loop ends at the first None.
SingleMayAllocate(T) ==
    CASE plan.kind = "single" -> Len(boxes) < MaxBoxes
      [] plan.kind = "serial" -> T = plan.type /\ result.ret = "some"
      [] OTHER -> FALSE

SingleAllocate(T) ==
    LET c == chunks[1]
        offset == AlignOffset(c.free_pointer, T.align)
    IN
    /\ SingleMayAllocate(T)
    /\ Main \notin panicked
    /\ IF T.size = 0
       THEN /\ boxes' = Append(boxes, ZeroSizedBox(T, NextValue, Main))
            /\ result' = Ret("allocate", "some", Main, Len(boxes) + 1)
            /\ UNCHANGED <<chunks, writes, panicked>>
       ELSE IF RemainingUnderflows(c) /\ build = "debug"
       THEN /\ panicked' = panicked \cup {Main}
            /\ result' = Ret("allocate", "panic", Main, 0)
            /\ UNCHANGED <<chunks, writes, boxes>>
       ELSE IF SingleFits(c, T, offset)
       THEN WriteToMemory(chunks, 1, T, offset, NextValue, Main)
       ELSE SingleAllocateNone(offset)
    /\ UNCHANGED <<build, pc, req, ptr_lock, allocations_lock, owner, fp_strong, deallocs, chunked, plan>>

---------------------------------------------------------------------------
(* ArenaBox (arena_box.rs) *)

\* the mutex state left by a holder that panicked
Poisoned == 0 - 1

\* the chunk is an AtomicSingleArena: its count sits behind the allocations mutex
SharedChunk == plan.kind \in {"atomic", "rounds", "clones", "unchecked", "locks"}

\* adjust_allocation_count(count) panics: allocations.lock().expect(..) on a
\* poisoned mutex, or checked_add_signed(count).expect(..) on None
AdjustPanics(c, count) ==
    \/ SharedChunk /\ allocations_lock = Poisoned
    \/ AdjustedCount(c, count) = NoneVal

AdjustAllocationCount_AllChunks(ci, count) ==
    /\ chunks' = [j \in DOMAIN chunks |->
                     IF AdjustedCount(chunks[j], count) = NoneVal
                     THEN chunks[j]
                     ELSE [chunks[j] EXCEPT !.allocations = AdjustedCount(chunks[j], count)]]
    /\ UNCHANGED allocations_lock

\* adjust_allocation_count(count) on chunk ci: the count, and the allocations
\* mutex, which is poisoned by a panic of its holder
AdjustAllocationCount(ci, count) ==
    LET c == chunks[ci] IN
    IF AdjustPanics(c, count)
    THEN /\ allocations_lock' =
               IF SharedChunk /\ allocations_lock # Poisoned THEN Poisoned ELSE allocations_lock
         /\ UNCHANGED chunks
    ELSE /\ chunks' = [chunks EXCEPT ![ci].allocations = AdjustedCount(c, count)]
         /\ UNCHANGED allocations_lock

\* drop_notify_arena panics (only a box with an arena notifies it)
NotifyPanics(i) ==
    boxes[i].arena # 0 /\ AdjustPanics(chunks[boxes[i].arena], -1)

DropNotifyArena_Skips(i) == UNCHANGED <<chunks, allocations_lock>>

\* drop_notify_arena: adjust_allocation_count(-1) on the owning chunk, if any
DropNotifyArena(i) ==
    IF boxes[i].arena = 0
    THEN UNCHANGED <<chunks, allocations_lock>>
    ELSE AdjustAllocationCount(boxes[i].arena, -1)

\* impl Drop for ArenaBox: notify the chunk, then drop the value in place; a
\* panic of the notification unwinds before the value's destructor is called
DropBox(i) ==
    /\ i \in 1..Len(boxes)
    /\ boxes[i].state = "live"
    /\ boxes[i].via \notin panicked
    /\ pc[boxes[i].via] = "idle"
    /\ DropNotifyArena(i)
    /\ IF NotifyPanics(i)
       THEN /\ panicked' = panicked \cup {boxes[i].via}
            /\ boxes' = [boxes EXCEPT ![i].state = "leaked"]
       ELSE /\ boxes' = [boxes EXCEPT ![i].state = "released", ![i].teardowns = @ + 1]
            /\ UNCHANGED panicked
    /\ UNCHANGED <<writes, result, build, pc, req, ptr_lock, owner, fp_strong, deallocs, chunked, plan>>

\* ArenaBox::into_inner: notify the chunk, forget the box, read the value out.
\* A panic of the notification unwinds with the box still owned, its Drop then
\* notifies again and panics while panicking: the process aborts.
IntoInner(i) ==
    /\ i \in 1..Len(boxes)
    /\ boxes[i].state = "live"
    /\ boxes[i].via \notin panicked
    /\ pc[boxes[i].via] = "idle"
    /\ DropNotifyArena(i)
    /\ IF NotifyPanics(i)
       THEN /\ panicked' = Threads
            /\ boxes' = [boxes EXCEPT ![i].state = "leaked"]
       ELSE /\ boxes' = [boxes EXCEPT ![i].state = "extracted"]
            /\ UNCHANGED panicked
    /\ UNCHANGED <<writes, result, build, pc, req, ptr_lock, owner, fp_strong, deallocs, chunked, plan>>

\* the caller drops the value into_inner gave it: the value's destructor runs
DropValue(i) ==
    /\ i \in 1..Len(boxes)
    /\ boxes[i].state = "extracted"
    /\ boxes[i].via \notin panicked
    /\ boxes' = [boxes EXCEPT ![i].state = "consumed", ![i].teardowns = @ + 1]
    /\ UNCHANGED <<chunks, writes, result, build, panicked, pc, req, ptr_lock,
                   allocations_lock, owner, fp_strong, deallocs, chunked, plan>>

---------------------------------------------------------------------------
(* Specification of one SingleArena and its boxes *)

NoResult == [op |-> "new", ret |-> "unit", who |-> Main]

InitSingle ==
    /\ \E n \in ChunkSizes, s \in ChunkStarts : chunks = <<NewChunk(n, s)>>
    /\ writes = <<>>
    /\ boxes = <<>>
    /\ result = NoResult
    /\ build \in Builds
    /\ panicked = {}
    /\ pc = AllIdle
    /\ req = NoRequest
    /\ ptr_lock = 0
    /\ allocations_lock = 0
    /\ owner = <<>>
    /\ fp_strong = 0
    /\ deallocs = 0
    /\ chunked = NoChunked
    /\ plan = Plan("single", TUnit, 0)

NextSingle ==
    \/ \E T \in SmallTypes : SingleAllocate(T)
    \/ \E i \in 1..MaxBoxes : plan.kind = "single" /\ DropBox(i)
    \/ \E i \in 1..MaxBoxes : plan.kind = "single" /\ IntoInner(i)

SpecSingle == InitSingle /\ [][NextSingle]_vars

---------------------------------------------------------------------------
(* The scenario of single_allocation: a loop allocates objects of one        *)
(* alignment-1 type in a fresh SingleArena and unwraps every result; the     *)
(* boxes are dropped at once (`let _ =`) or kept.                            *)

\* the alignment-1 types the loop is run with (u8 and [u8; 2])
SerialTypes == {TU8, TU8x2}

InitSerial ==
    /\ \E n \in ChunkSizes, s \in ChunkStarts : chunks = <<NewChunk(n, s)>>
    /\ writes = <<>>
    /\ boxes = <<>>
    /\ result = [op |-> "new", ret |-> "some", who |-> Main]
    /\ build \in Builds
    /\ panicked = {}
    /\ pc = AllIdle
    /\ req = NoRequest
    /\ ptr_lock = 0
    /\ allocations_lock = 0
    /\ owner = <<>>
    /\ fp_strong = 0
    /\ deallocs = 0
    /\ chunked = NoChunked
    /\ \E T \in SerialTypes : plan = Plan("serial", T, 0)

NextSerial ==
    \/ SingleAllocate(plan.type)
    \/ \E i \in 1..MaxChunkSize : plan.kind = "serial" /\ DropBox(i)

SpecSerial == InitSerial /\ [][NextSerial]_vars

---------------------------------------------------------------------------
(* AtomicSingleArena (single.rs).  allocate takes the free_pointer mutex,  *)
(* checks and writes under it, and write_to_memory_with_lock then takes    *)
(* the allocations mutex for the count; the free_pointer guard is dropped  *)
(* when write_to_memory_with_lock returns.                                 *)

\* the value thread t stores (10 and 20 in atomic_single_allocation)
ThreadValue(t) == 10 * t

AtomicFits_Always(c, T, offset) == TRUE

\* ptr_lock.checked_add(allocation_size)? <= self.start_pointer + self.size
AtomicFits(c, T, offset) ==
    /\ CheckedAdd(c.free_pointer, T.size) # NoneVal
    /\ CheckedAdd(c.free_pointer, T.size) <= ChunkEnd(c)

\* the shared state (free_pointer and allocations) that the Arcs of thread t's
\* owner point to; where the owners are not told apart there is one
CellOf(t) == IF plan.kind = "clones" THEN owner[t].cell ELSE 1

\* the two threads that allocate in the rounds scenario (thread1 and thread2 of
\* atomic_single_allocation)
Workers == {t \in Threads : t <= 2}

\* both workers have made their rounds (and have been joined)
RoundsDone ==
    \A u \in Workers : plan.done[u] = plan.rounds /\ (pc[u] = "idle" \/ plan.extra)

\* the box of the previous statement is gone (a temporary dies with its statement)
NoLiveBox(t) ==
    \A i \in 1..Len(boxes) : boxes[i].via = t => boxes[i].state # "live"

\* the caller's side of allocate: which calls this scenario makes
MayAllocate(t, T) ==
    CASE plan.kind \in {"atomic", "unchecked"} ->
            Len(boxes) + Cardinality({u \in Threads : pc[u] # "idle"}) < MaxAtomicBoxes
      [] plan.kind = "locks" -> \A i \in 1..Len(boxes) : boxes[i].via # t
      [] plan.kind = "clones" ->
            /\ owner[t].st = "alive"
            /\ Len(boxes) + Cardinality({u \in Threads : pc[u] # "idle"}) < MaxAtomicBoxes
      [] plan.kind = "rounds" ->
            /\ NoLiveBox(t)
            /\ \/ t \in Workers /\ plan.done[t] < plan.rounds /\ T = plan.type
               \/ RoundsDone /\ T.size > 0
      [] OTHER -> FALSE

Attempted(t) ==
    CASE plan.kind = "rounds" /\ t \in Workers /\ plan.done[t] < plan.rounds ->
            [plan EXCEPT !.done[t] = @ + 1]
      [] plan.kind = "rounds" -> [plan EXCEPT !.extra = TRUE]
      [] OTHER -> plan

\* allocate, up to the request for the free_pointer lock
AtomicAllocate(t, T) ==
    /\ MayAllocate(t, T)
    /\ t \notin panicked
    /\ pc[t] = "idle"
    /\ IF T.size = 0
       THEN /\ boxes' = Append(boxes, ZeroSizedBox(T, ThreadValue(t), t))
            /\ result' = Ret("allocate", "some", t, Len(boxes) + 1)
            /\ UNCHANGED <<pc, req>>
       ELSE /\ pc' = [pc EXCEPT ![t] = "lock"]
            /\ req' = [req EXCEPT ![t] = T]
            /\ UNCHANGED <<boxes, result>>
    /\ plan' = Attempted(t)
    /\ UNCHANGED <<chunks, writes, build, panicked, ptr_lock, allocations_lock, owner, fp_strong, deallocs, chunked>>


\* the `?` after lock().ok() and after checked_add, and the `else { None }`
AtomicAllocateNone(t) ==
    /\ result' = Ret("allocate", "none", t, 0)
    /\ pc' = [pc EXCEPT ![t] = "idle"]
    /\ req' = [req EXCEPT ![t] = TUnit]
    /\ UNCHANGED <<chunks, writes, boxes, panicked, ptr_lock, allocations_lock>>

\* free_pointer.lock(), the capacity check, and the write and bump under the lock
AtomicCheckAndWrite(t) ==
    LET c == chunks[CellOf(t)]
        T == req[t]
        offset == AlignOffset(c.free_pointer, T.align)
    IN
    /\ pc[t] = "lock"
    /\ ptr_lock \in {0, Poisoned}
    /\ IF ptr_lock = Poisoned \/ ~AtomicFits(c, T, offset)
       THEN AtomicAllocateNone(t)
       ELSE /\ ptr_lock' = t
            /\ writes' = Append(writes, WriteRecord(c, T, offset, ThreadValue(t)))
            /\ chunks' = [chunks EXCEPT ![CellOf(t)].free_pointer = BumpedPointer(c, T.size, offset)]
            /\ pc' = [pc EXCEPT ![t] = "count"]
            /\ UNCHANGED <<boxes, result, panicked, req, allocations_lock>>
    /\ UNCHANGED <<build, owner, fp_strong, deallocs, chunked, plan>>

\* adjust_allocation_count(1) under the allocations lock, ArenaBox::new, guard
\* dropped; a panic here unwinds through the free_pointer guard and poisons it
AtomicCountAndReturn(t) ==
    LET c == chunks[CellOf(t)]
        T == req[t]
        w == writes[Len(writes)]  \* written by t: nobody else writes while t holds the lock
    IN
    /\ pc[t] = "count"
    /\ ptr_lock = t
    /\ pc' = [pc EXCEPT ![t] = "idle"]
    /\ req' = [req EXCEPT ![t] = TUnit]
    /\ AdjustAllocationCount(CellOf(t), 1)
    /\ IF AdjustPanics(c, 1)
       THEN /\ panicked' = panicked \cup {t}
            /\ ptr_lock' = Poisoned
            /\ result' = Ret("allocate", "panic", t, 0)
            /\ UNCHANGED boxes
       ELSE /\ boxes' = Append(boxes,
                   [inner |-> w.addr, arena |-> CellOf(t), size |-> T.size, align |-> T.align,
                    val |-> w.val, state |-> "live", via |-> t, teardowns |-> 0])
            /\ result' = Ret("allocate", "some", t, Len(boxes) + 1)
            /\ ptr_lock' = 0
            /\ UNCHANGED panicked
    /\ UNCHANGED <<writes, build, owner, fp_strong, deallocs, chunked, plan>>

InitAtomic ==
    /\ \E n \in AtomicSizes, s \in ChunkStarts : chunks = <<NewChunk(n, s)>>
    /\ writes = <<>>
    /\ boxes = <<>>
    /\ result = NoResult
    /\ build \in Builds
    /\ panicked = {}
    /\ pc = AllIdle
    /\ req = NoRequest
    /\ ptr_lock = 0
    /\ allocations_lock = 0
    /\ owner = <<>>
    /\ fp_strong = NThreads
    /\ deallocs = 0
    /\ chunked = NoChunked
    /\ plan = Plan("atomic", TUnit, 0)

NextAtomic ==
    \/ \E t \in Threads, T \in SmallTypes : AtomicAllocate(t, T)
    \/ \E t \in Threads : AtomicCheckAndWrite(t)
    \/ \E t \in Threads : AtomicCountAndReturn(t)
    \/ \E i \in 1..MaxAtomicBoxes : plan.kind = "atomic" /\ DropBox(i)
    \/ \E i \in 1..MaxAtomicBoxes : plan.kind = "atomic" /\ IntoInner(i)

SpecAtomic == InitAtomic /\ [][NextAtomic]_vars

---------------------------------------------------------------------------
(* allocate_unchecked on an AtomicSingleArena.  The trait's default method   *)
(* reads the cursor with get_free_pointer_mut(), which takes and releases    *)
(* the free_pointer mutex, computes the padding, and then calls              *)
(* write_to_memory, which takes the mutex again.  Its callers keep its       *)
(* contract: the object is not zero-sized and the chunk has room for it.     *)

\* a capacity that has room for every object the callers allocate, padded
UncheckedSize == MaxAtomicBoxes * 2 * MaxAlign(SmallTypes)

\* allocate_unchecked, first half: get_free_pointer_mut().align_offset(align)
AtomicUncheckedRead(t, T) ==
    /\ plan.kind = "unchecked"
    /\ MayAllocate(t, T)
    /\ T.size > 0
    /\ t \notin panicked
    /\ pc[t] = "idle"
    /\ ptr_lock \in {0, Poisoned}
    /\ IF ptr_lock = Poisoned
       THEN /\ panicked' = panicked \cup {t}
            /\ result' = Ret("allocate", "panic", t, 0)
            /\ UNCHANGED <<pc, req>>
       ELSE /\ pc' = [pc EXCEPT ![t] = "unchecked"]
            /\ req' = [req EXCEPT ![t] =
                          [size |-> T.size, align |-> T.align,
                           offset |-> AlignOffset(chunks[CellOf(t)].free_pointer, T.align)]]
            /\ UNCHANGED <<panicked, result>>
    /\ UNCHANGED <<chunks, writes, boxes, build, ptr_lock, allocations_lock, owner,
                   fp_strong, deallocs, chunked, plan>>

\* allocate_unchecked, second half: write_to_memory(object, size, offset) takes
\* the free_pointer mutex and writes and bumps with the offset it was given
AtomicUncheckedWrite(t) ==
    LET c == chunks[CellOf(t)]
        T == req[t]
    IN
    /\ pc[t] = "unchecked"
    /\ ptr_lock \in {0, Poisoned}
    /\ IF ptr_lock = Poisoned
       THEN /\ panicked' = panicked \cup {t}
            /\ result' = Ret("allocate", "panic", t, 0)
            /\ pc' = [pc EXCEPT ![t] = "idle"]
            /\ req' = [req EXCEPT ![t] = TUnit]
            /\ UNCHANGED <<chunks, writes, ptr_lock>>
       ELSE /\ ptr_lock' = t
            /\ writes' = Append(writes, WriteRecord(c, T, T.offset, ThreadValue(t)))
            /\ chunks' = [chunks EXCEPT
                             ![CellOf(t)].free_pointer = BumpedPointer(c, T.size, T.offset)]
            /\ pc' = [pc EXCEPT ![t] = "count"]
            /\ UNCHANGED <<panicked, result, req>>
    /\ UNCHANGED <<boxes, build, allocations_lock, owner, fp_strong, deallocs, chunked, plan>>

InitUnchecked ==
    /\ \E s \in ChunkStarts : chunks = <<NewChunk(UncheckedSize, s)>>
    /\ writes = <<>>
    /\ boxes = <<>>
    /\ result = NoResult
    /\ build \in Builds
    /\ panicked = {}
    /\ pc = AllIdle
    /\ req = NoRequest
    /\ ptr_lock = 0
    /\ allocations_lock = 0
    /\ owner = <<>>
    /\ fp_strong = NThreads
    /\ deallocs = 0
    /\ chunked = NoChunked
    /\ plan = Plan("unchecked", TUnit, 0)

NextUnchecked ==
    \/ \E t \in Threads, T \in SmallTypes : AtomicUncheckedRead(t, T)
    \/ \E t \in Threads : AtomicUncheckedWrite(t)
    \/ \E t \in Threads, T \in SmallTypes : AtomicAllocate(t, T)
    \/ \E t \in Threads : AtomicCheckAndWrite(t)
    \/ \E t \in Threads : AtomicCountAndReturn(t)
    \/ \E i \in 1..MaxAtomicBoxes : plan.kind = "unchecked" /\ DropBox(i)

SpecUnchecked == InitUnchecked /\ [][NextUnchecked]_vars

---------------------------------------------------------------------------
(* The two mutexes of an AtomicSingleArena, step by step.  allocate holds    *)
(* the free_pointer guard (ptr_lock) from its lock() to its return and       *)
(* takes the allocations mutex inside; remaining_capacity takes only the     *)
(* free_pointer mutex; release and into_inner take only the allocations      *)
(* mutex.  A lock variable holds the thread that owns the guard.             *)

CounterLockFree_AfterCursor(t) ==
    allocations_lock \in {0, Poisoned} /\ ptr_lock \in {0, Poisoned}

\* self.allocations.lock() returns once no thread holds the guard
CounterLockFree(t) == allocations_lock \in {0, Poisoned}

\* self.free_pointer.lock() returns once no thread holds the guard
CursorLockFree(t) == ptr_lock \in {0, Poisoned}

\* allocate, in write_to_memory_with_lock: adjust_allocation_count(1) locks the
\* allocations mutex (the free_pointer guard is held)
CountLock(t) ==
    /\ plan.kind = "locks"
    /\ pc[t] = "count"
    /\ CounterLockFree(t)
    /\ allocations_lock' = t
    /\ pc' = [pc EXCEPT ![t] = "counting"]
    /\ UNCHANGED <<chunks, writes, boxes, result, build, panicked, req, ptr_lock,
                   owner, fp_strong, deallocs, chunked, plan>>

\* allocate: the count is raised, the allocations guard dropped, the box made,
\* and the free_pointer guard dropped on return
CountDone(t) ==
    LET c == chunks[CellOf(t)]
        T == req[t]
        w == writes[Len(writes)]
    IN
    /\ pc[t] = "counting"
    /\ allocations_lock = t
    /\ pc' = [pc EXCEPT ![t] = "idle"]
    /\ req' = [req EXCEPT ![t] = TUnit]
    /\ IF AdjustedCount(c, 1) = NoneVal
       THEN /\ panicked' = panicked \cup {t}
            /\ allocations_lock' = Poisoned
            /\ ptr_lock' = Poisoned
            /\ result' = Ret("allocate", "panic", t, 0)
            /\ UNCHANGED <<chunks, boxes>>
       ELSE /\ chunks' = [chunks EXCEPT ![CellOf(t)].allocations = AdjustedCount(c, 1)]
            /\ boxes' = Append(boxes,
                   [inner |-> w.addr, arena |-> CellOf(t), size |-> T.size, align |-> T.align,
                    val |-> w.val, state |-> "live", via |-> t, teardowns |-> 0])
            /\ result' = Ret("allocate", "some", t, Len(boxes) + 1)
            /\ allocations_lock' = 0
            /\ ptr_lock' = 0
            /\ UNCHANGED panicked
    /\ UNCHANGED <<writes, build, owner, fp_strong, deallocs, chunked, plan>>

\* drop(box) or ArenaBox::into_inner(box) is called: drop_notify_arena begins
NotifyCall(i, how) ==
    /\ plan.kind = "locks"
    /\ i \in 1..Len(boxes)
    /\ boxes[i].state = "live"
    /\ boxes[i].via \notin panicked
    /\ pc[boxes[i].via] = "idle"
    /\ IF boxes[i].arena = 0
       THEN /\ boxes' = [boxes EXCEPT ![i].state = how.done, ![i].teardowns = @ + how.teardowns]
            /\ UNCHANGED pc
       ELSE /\ boxes' = [boxes EXCEPT ![i].state = how.doing]
            /\ pc' = [pc EXCEPT ![boxes[i].via] = "notify"]
    /\ UNCHANGED <<chunks, writes, result, build, panicked, req, ptr_lock, allocations_lock,
                   owner, fp_strong, deallocs, chunked, plan>>

\* impl Drop for ArenaBox, and into_inner
ByDrop == [doing |-> "dropping", done |-> "released", teardowns |-> 1]
ByIntoInner == [doing |-> "extracting", done |-> "extracted", teardowns |-> 0]

\* adjust_allocation_count(-1) locks the allocations mutex
NotifyLock(t) ==
    /\ pc[t] = "notify"
    /\ CounterLockFree(t)
    /\ allocations_lock' = t
    /\ pc' = [pc EXCEPT ![t] = "notifying"]
    /\ UNCHANGED <<chunks, writes, boxes, result, build, panicked, req, ptr_lock,
                   owner, fp_strong, deallocs, chunked, plan>>

\* the count is lowered and the guard dropped; Drop then drops the value in
\* place, into_inner reads it out
NotifyDone(t) ==
    /\ pc[t] = "notifying"
    /\ allocations_lock = t
    /\ \E i \in 1..Len(boxes) :
          /\ boxes[i].via = t
          /\ boxes[i].state \in {"dropping", "extracting"}
          /\ LET c == chunks[boxes[i].arena]
                 how == IF boxes[i].state = "dropping" THEN ByDrop ELSE ByIntoInner
             IN
             IF AdjustedCount(c, -1) = NoneVal
             THEN /\ panicked' = panicked \cup {t}
                  /\ allocations_lock' = Poisoned
                  /\ boxes' = [boxes EXCEPT ![i].state = "leaked"]
                  /\ UNCHANGED chunks
             ELSE /\ chunks' = [chunks EXCEPT ![boxes[i].arena].allocations = AdjustedCount(c, -1)]
                  /\ allocations_lock' = 0
                  /\ boxes' = [boxes EXCEPT ![i].state = how.done,
                                            ![i].teardowns = @ + how.teardowns]
                  /\ UNCHANGED panicked
    /\ pc' = [pc EXCEPT ![t] = "idle"]
    /\ UNCHANGED <<writes, result, build, req, ptr_lock, owner, fp_strong, deallocs, chunked, plan>>

\* remaining_capacity() is called (by a thread that has yet to allocate)
CapacityCall(t) ==
    /\ plan.kind = "locks"
    /\ t \notin panicked
    /\ pc[t] = "idle"
    /\ plan.done[t] < MaxQueries
    /\ \A i \in 1..Len(boxes) : boxes[i].via # t
    /\ plan' = [plan EXCEPT !.done[t] = @ + 1]
    /\ pc' = [pc EXCEPT ![t] = "capacity"]
    /\ UNCHANGED <<chunks, writes, boxes, result, build, panicked, req, ptr_lock,
                   allocations_lock, owner, fp_strong, deallocs, chunked>>

\* get_free_pointer_mut(): free_pointer.lock()
CapacityLock(t) ==
    /\ pc[t] = "capacity"
    /\ CursorLockFree(t)
    /\ ptr_lock' = t
    /\ pc' = [pc EXCEPT ![t] = "reading"]
    /\ UNCHANGED <<chunks, writes, boxes, result, build, panicked, req, allocations_lock,
                   owner, fp_strong, deallocs, chunked, plan>>

\* the cursor is read and the guard dropped; then (start + size) - cursor
CapacityDone(t) ==
    /\ pc[t] = "reading"
    /\ ptr_lock = t
    /\ ptr_lock' = 0
    /\ pc' = [pc EXCEPT ![t] = "idle"]
    /\ IF RemainingUnderflows(chunks[CellOf(t)]) /\ build = "debug"
       THEN panicked' = panicked \cup {t}
       ELSE UNCHANGED panicked
    /\ UNCHANGED <<chunks, writes, boxes, result, build, req, allocations_lock, owner,
                   fp_strong, deallocs, chunked, plan>>

InitLocks ==
    /\ chunks = <<NewChunk(CountSize, HeapLow)>>
    /\ writes = <<>>
    /\ boxes = <<>>
    /\ result = NoResult
    /\ build \in Builds
    /\ panicked = {}
    /\ pc = AllIdle
    /\ req = NoRequest
    /\ ptr_lock = 0
    /\ allocations_lock = 0
    /\ owner = <<>>
    /\ fp_strong = NThreads
    /\ deallocs = 0
    /\ chunked = NoChunked
    /\ plan = Plan("locks", TUnit, 0)

\* the objects the threads allocate, one each (a zero-sized one takes no lock)
LockTypes == {TU8}

\* the calls the threads make
LockCalls ==
    \/ \E t \in Threads, T \in LockTypes : plan.kind = "locks" /\ AtomicAllocate(t, T)
    \/ \E t \in Threads : CapacityCall(t)
    \/ \E i \in 1..NThreads : NotifyCall(i, ByDrop)
    \/ \E i \in 1..NThreads : NotifyCall(i, ByIntoInner)

\* the steps thread t takes inside an operation it has started
LockStep(t) ==
    \/ plan.kind = "locks" /\ AtomicCheckAndWrite(t)
    \/ CountLock(t)
    \/ CountDone(t)
    \/ NotifyLock(t)
    \/ NotifyDone(t)
    \/ CapacityLock(t)
    \/ CapacityDone(t)

NextLocks == LockCalls \/ \E t \in Threads : LockStep(t)

SpecLocks == InitLocks /\ [][NextLocks]_vars

\* every thread that can take a step of its operation eventually takes one
SpecLocksFair == SpecLocks /\ \A t \in Threads : WF_vars(LockStep(t))

---------------------------------------------------------------------------
(* Creating a chunk: ArenaChunk::new(size), for a SingleArena or an         *)
(* AtomicSingleArena, followed by the use of the chunk it returned.         *)

\* the sizes new is called with
NewSizes == 0 .. MaxChunkSize

\* the chunk types new is called on, by the scenario that uses the chunk
NewKinds == {"single", "atomic"}

\* ArenaChunk::new(size): None for size 0, else Some(new_unchecked(size)); the
\* layout asked for (plan.type) is Layout { size, align: 1 }
NewArena(kind) ==
    /\ plan.kind = "create"
    /\ result.ret = "unit"
    /\ IF plan.type.size = 0
       THEN /\ result' = [op |-> "new", ret |-> "none", who |-> Main]
            /\ UNCHANGED <<chunks, plan, fp_strong>>
       ELSE /\ \E s \in ChunkStarts : chunks' = <<NewChunk(plan.type.size, s)>>
            /\ result' = [op |-> "new", ret |-> "some", who |-> Main]
            /\ plan' = [plan EXCEPT !.kind = kind]
            /\ fp_strong' = IF kind = "atomic" THEN NThreads ELSE 0
    /\ UNCHANGED <<writes, boxes, build, panicked, pc, req, ptr_lock, allocations_lock,
                   owner, deallocs, chunked>>

InitCreate ==
    /\ chunks = <<>>
    /\ writes = <<>>
    /\ boxes = <<>>
    /\ result = NoResult
    /\ build \in Builds
    /\ panicked = {}
    /\ pc = AllIdle
    /\ req = NoRequest
    /\ ptr_lock = 0
    /\ allocations_lock = 0
    /\ owner = <<>>
    /\ fp_strong = 0
    /\ deallocs = 0
    /\ chunked = NoChunked
    /\ \E n \in NewSizes : plan = Plan("create", [size |-> n, align |-> 1], 0)

NextCreate ==
    \/ \E kind \in NewKinds : NewArena(kind)
    \/ NextSingle
    \/ NextAtomic

SpecCreate == InitCreate /\ [][NextCreate]_vars

---------------------------------------------------------------------------
(* The scenario of atomic_single_allocation: two threads each allocate        *)
(* `rounds` objects of one alignment-1 type through their clones of one chunk *)
(* of capacity 2 * rounds * size, dropping each box at once; after both have  *)
(* finished, some thread attempts another allocation.                         *)

RoundTypes == {TU8, TU8x2}

InitRounds ==
    /\ \E r \in 1..MaxRounds, T \in RoundTypes, s \in ChunkStarts :
          /\ chunks = <<NewChunk(Cardinality(Workers) * r * T.size, s)>>
          /\ plan = Plan("rounds", T, r)
    /\ writes = <<>>
    /\ boxes = <<>>
    /\ result = NoResult
    /\ build \in Builds
    /\ panicked = {}
    /\ pc = AllIdle
    /\ req = NoRequest
    /\ ptr_lock = 0
    /\ allocations_lock = 0
    /\ owner = <<>>
    /\ fp_strong = NThreads
    /\ deallocs = 0
    /\ chunked = NoChunked

NextRounds ==
    \/ \E t \in Threads, T \in SmallTypes \cup RoundTypes : AtomicAllocate(t, T)
    \/ \E t \in Threads : AtomicCheckAndWrite(t)
    \/ \E t \in Threads : AtomicCountAndReturn(t)
    \/ \E i \in 1..Len(boxes) : plan.kind = "rounds" /\ DropBox(i)

SpecRounds == InitRounds /\ [][NextRounds]_vars

---------------------------------------------------------------------------
(* Arena (arena_allocator.rs) over a list of SingleArena chunks *)

CHUNK_SIZE == 4096

TBuf  == [size |-> CHUNK_SIZE - 2, align |-> 1]
THuge == [size |-> CHUNK_SIZE + 2, align |-> 2]

ArenaTypes == {TUnit, TU8, TU16, TBuf, THuge}

Max(a, b) == IF a >= b THEN a ELSE b

\* Addresses alloc::alloc(Layout { size, align: 1 }) may return for a new chunk.
\* The system allocator may place a block anywhere free; the model lets it place
\* the first block at HeapTop and each later block below the lowest chunk, either
\* touching it or leaving a gap, so that every residue modulo the largest
\* alignment and both adjacent and separated chunks occur.
HeapTop == (MaxArenaBoxes + 1) * 2 * CHUNK_SIZE

Skews == 0 .. (MaxAlign(ArenaTypes) - 1)

ArenaStarts(size) ==
    IF chunks = <<>>
    THEN {HeapTop + d : d \in Skews}
    ELSE {chunks[Len(chunks)].start_pointer - size - d : d \in Skews}

FreeBlock(start, size) ==
    \A i \in 1..Len(chunks) :
        ~Overlap(start, size, chunks[i].start_pointer, chunks[i].size)


ArenaFits_Never(c, T) == FALSE

\* allocation_size <= remaining_capacity  (the padding is not counted)
ArenaFits(c, T) == T.size <= RemainingCapacity(c)


NewChunkSize_Default(min_size) == CHUNK_SIZE

\* new_chunk: std::cmp::max(min_size, CHUNK_SIZE)
NewChunkSize(min_size) == Max(min_size, CHUNK_SIZE)

\* allocate_unchecked on chunk ci of cs: pad to the alignment, then write_to_memory
AllocateUnchecked(cs, ci, T, v, t) ==
    WriteToMemory(cs, ci, T, AlignOffset(cs[ci].free_pointer, T.align), v, t)

ArenaGrow_Prepends(T) ==
    \E start \in ArenaStarts(NewChunkSize(T.size)) :
        /\ FreeBlock(start, NewChunkSize(T.size))
        /\ AllocateUnchecked(<<NewChunk(NewChunkSize(T.size), start)>> \o chunks,
                             1, T, NextValue, Main)

\* the growth path: new_chunk(size_of::<T>()), then allocate_unchecked in it
ArenaGrow(T) ==
    \E start \in ArenaStarts(NewChunkSize(T.size)) :
        /\ FreeBlock(start, NewChunkSize(T.size))
        /\ AllocateUnchecked(Append(chunks, NewChunk(NewChunkSize(T.size), start)),
                             Len(chunks) + 1, T, NextValue, Main)

Last_Front(cs) == IF cs = <<>> THEN 0 ELSE 1

\* chunks.last(): the index of the back of the list (0: None)
Last(cs) == Len(cs)

\* the calls of Arena::allocate that have returned or unwound
ArenaCalls == Len(boxes) + (IF Main \in panicked THEN 1 ELSE 0)

\* the caller's side of Arena::allocate: which calls the scenario makes.  In
\* the "fill" scenario (allocate_three_chunks) the caller allocates one-byte
\* objects in a loop and drops each box before the next call.
ArenaMayAllocate(T) ==
    CASE plan.kind = "arena" -> Len(boxes) < MaxArenaBoxes
      [] plan.kind = "pair" -> T = plan.type /\ ArenaCalls < plan.done[Main]
      [] plan.kind = "fill" ->
            /\ T = plan.type
            /\ Len(boxes) < plan.rounds
            /\ IF boxes = <<>> THEN TRUE ELSE boxes[Len(boxes)].state # "live"
      [] OTHER -> FALSE

ArenaAllocate(T) ==
    LET n == Last(chunks) IN
    /\ ArenaMayAllocate(T)
    /\ Main \notin panicked
    /\ IF T.size = 0
       THEN /\ boxes' = Append(boxes, ZeroSizedBox(T, NextValue, Main))
            /\ result' = Ret("allocate", "some", Main, Len(boxes) + 1)
            /\ UNCHANGED <<chunks, writes, panicked>>
       ELSE IF n > 0 /\ RemainingUnderflows(chunks[n]) /\ build = "debug"
       THEN /\ panicked' = panicked \cup {Main}
            /\ result' = Ret("allocate", "panic", Main, 0)
            /\ UNCHANGED <<chunks, writes, boxes>>
       ELSE IF n > 0 /\ ArenaFits(chunks[n], T)
       THEN AllocateUnchecked(chunks, n, T, NextValue, Main)
       ELSE ArenaGrow(T)
    /\ UNCHANGED <<build, pc, req, ptr_lock, allocations_lock, owner, fp_strong, deallocs, chunked, plan>>

InitArena ==
    /\ chunks = <<>>
    /\ writes = <<>>
    /\ boxes = <<>>
    /\ result = NoResult
    /\ build \in Builds
    /\ panicked = {}
    /\ pc = AllIdle
    /\ req = NoRequest
    /\ ptr_lock = 0
    /\ allocations_lock = 0
    /\ owner = <<>>
    /\ fp_strong = 0
    /\ deallocs = 0
    /\ chunked = NoChunked
    /\ plan = Plan("arena", TUnit, 0)

NextArena ==
    \/ \E T \in ArenaTypes : ArenaAllocate(T)
    \/ \E i \in 1..MaxArenaBoxes : plan.kind = "arena" /\ DropBox(i)
    \/ \E i \in 1..MaxArenaBoxes : plan.kind = "arena" /\ IntoInner(i)

SpecArena == InitArena /\ [][NextArena]_vars

---------------------------------------------------------------------------
(* Arena<C> (chunked.rs) with C = SingleArena, beside the Arena of           *)
(* arena_allocator.rs: the caller gives every object first to the Arena<C>,  *)
(* then to the Arena.                                                        *)

CHUNKED_CHUNK_SIZE == 4096

PairTypes == ArenaTypes

\* Addresses alloc::alloc may return for a chunk of the Arena<C>: above the
\* blocks of the Arena, each block above the one before, touching it or not.
ChunkedStarts(cs) ==
    IF cs = <<>>
    THEN {HeapTop + NewChunkSize(THuge.size) + MaxAlign(ArenaTypes) + d : d \in Skews}
    ELSE {ChunkEnd(cs[Len(cs)]) + d : d \in Skews}

ChunkedNewChunk_Exact(cs, min_size, start) == Append(cs, NewChunk(min_size, start))

\* Arena<C>::new_chunk: C::new_unchecked(max(min_size, CHUNK_SIZE)), push_back
ChunkedNewChunk(cs, min_size, start) ==
    Append(cs, NewChunk(Max(min_size, CHUNKED_CHUNK_SIZE), start))

\* chunks.back().allocate_unchecked(object): pad to the alignment, then
\* write_to_memory (cursor, live count; the count's overflow unwinds)
ChunkedAllocateUnchecked(cs, T) ==
    LET n == Len(cs)
        c == cs[n]
        offset == AlignOffset(c.free_pointer, T.align)
    IN IF AdjustedCount(c, 1) = NoneVal
       THEN [chunks |-> [cs EXCEPT ![n].free_pointer = BumpedPointer(c, T.size, offset)],
             panicked |-> TRUE]
       ELSE [chunks |-> [cs EXCEPT ![n] = WrittenChunk(c, T.size, offset)],
             panicked |-> FALSE]

\* the caller's side of Arena<C>::allocate: the next object is given to the
\* Arena<C> once the Arena has handled the one before
ChunkedMayAllocate(T) ==
    /\ plan.kind = "pair"
    /\ plan.done[Main] = ArenaCalls
    /\ plan.done[Main] < MaxArenaBoxes
    /\ Main \notin panicked
    /\ ~chunked.panicked

\* Arena<C>::allocate.  The list reference taken before new_chunk is read
\* again after the push and sees the pushed chunk.
ChunkedAllocate(T) ==
    LET cs == chunked.chunks
        n == Len(cs)
    IN
    /\ ChunkedMayAllocate(T)
    /\ IF n > 0 /\ RemainingUnderflows(cs[n]) /\ build = "debug"
       THEN chunked' = [chunked EXCEPT !.panicked = TRUE]
       ELSE IF n > 0 /\ T.size <= RemainingCapacity(cs[n])
       THEN chunked' = ChunkedAllocateUnchecked(cs, T)
       ELSE \E start \in ChunkedStarts(cs) :
                chunked' = ChunkedAllocateUnchecked(ChunkedNewChunk(cs, T.size, start), T)
    /\ plan' = [plan EXCEPT !.type = T, !.done[Main] = @ + 1]
    /\ UNCHANGED <<chunks, writes, boxes, result, build, panicked, pc, req, ptr_lock,
                   allocations_lock, owner, fp_strong, deallocs>>

InitPair ==
    /\ chunks = <<>>
    /\ writes = <<>>
    /\ boxes = <<>>
    /\ result = NoResult
    /\ build \in Builds
    /\ panicked = {}
    /\ pc = AllIdle
    /\ req = NoRequest
    /\ ptr_lock = 0
    /\ allocations_lock = 0
    /\ owner = <<>>
    /\ fp_strong = 0
    /\ deallocs = 0
    /\ chunked = NoChunked
    /\ plan = Plan("pair", TUnit, 0)

NextPair ==
    \/ \E T \in PairTypes : ChunkedAllocate(T)
    \/ plan.kind = "pair" /\ ArenaAllocate(plan.type)

SpecPair == InitPair /\ [][NextPair]_vars

---------------------------------------------------------------------------
(* The scenario of allocate_three_chunks: a loop allocates one-byte objects   *)
(* in an empty Arena, FillCount of them, each box dropped at                  *)
(* the end of its statement.                                                  *)

\* the number of iterations of the loop: FillExtra more than fill one chunk
FillCount == CHUNK_SIZE + FillExtra

InitFill ==
    /\ chunks = <<>>
    /\ writes = <<>>
    /\ boxes = <<>>
    /\ result = NoResult
    /\ build \in Builds
    /\ panicked = {}
    /\ pc = AllIdle
    /\ req = NoRequest
    /\ ptr_lock = 0
    /\ allocations_lock = 0
    /\ owner = <<>>
    /\ fp_strong = 0
    /\ deallocs = 0
    /\ chunked = NoChunked
    /\ plan = Plan("fill", TU8, FillCount)

NextFill ==
    \/ ArenaAllocate(plan.type)
    \/ plan.kind = "fill" /\ DropBox(Len(boxes))

SpecFill == InitFill /\ [][NextFill]_vars

---------------------------------------------------------------------------
(* Owners of one AtomicSingleArena buffer: #[derive(Clone)] and impl Drop.   *)
(* Each owner holds one Arc of free_pointer (and one of allocations); clone  *)
(* and drop of different owners may run on different threads.                *)

Owners == 1 .. NOwners

OwnerIn(st, src) == [st |-> st, src |-> src]

IsLastOwner_UpToTwo(remaining_arena_copies) == remaining_arena_copies <= 2

\* remaining_arena_copies == 1
IsLastOwner(remaining_arena_copies) == remaining_arena_copies = 1

\* derive(Clone), first half: src.free_pointer.clone() (Arc strong count + 1)
CloneFreePointer(o, src) ==
    /\ plan.kind = "owners"
    /\ owner[o].st = "none"
    /\ owner[src].st = "alive"
    /\ fp_strong' = fp_strong + 1
    /\ owner' = [owner EXCEPT ![o] = OwnerIn("cloning", src)]
    /\ UNCHANGED <<chunks, writes, boxes, result, build, panicked, pc, req, ptr_lock, allocations_lock,
                   deallocs, chunked, plan>>

\* derive(Clone), second half: src.allocations.clone(); the clone exists
CloneAllocations(o) ==
    /\ owner[o].st = "cloning"
    /\ owner' = [owner EXCEPT ![o] = OwnerIn("alive", 0)]
    /\ UNCHANGED <<chunks, writes, boxes, result, build, panicked, pc, req, ptr_lock, allocations_lock,
                   fp_strong, deallocs, chunked, plan>>

\* Drop::drop: deallocate_arena() if Arc::strong_count(&self.free_pointer) == 1.
\* An owner that is borrowed by a clone in progress cannot be dropped.
DropOwner(o) ==
    /\ plan.kind = "owners"
    /\ owner[o].st = "alive"
    /\ \A p \in Owners : ~(owner[p].st = "cloning" /\ owner[p].src = o)
    /\ deallocs' = IF IsLastOwner(fp_strong) THEN deallocs + 1 ELSE deallocs
    /\ owner' = [owner EXCEPT ![o] = OwnerIn("dropped", 0)]
    /\ UNCHANGED <<chunks, writes, boxes, result, build, panicked, pc, req, ptr_lock, allocations_lock,
                   fp_strong, chunked, plan>>

\* the drop glue after Drop::drop returns: the Arc fields are released
DropFields(o) ==
    /\ owner[o].st = "dropped"
    /\ fp_strong' = fp_strong - 1
    /\ owner' = [owner EXCEPT ![o] = OwnerIn("gone", 0)]
    /\ UNCHANGED <<chunks, writes, boxes, result, build, panicked, pc, req, ptr_lock, allocations_lock,
                   deallocs, chunked, plan>>

InitOwners ==
    /\ \E n \in AtomicSizes, s \in ChunkStarts : chunks = <<NewChunk(n, s)>>
    /\ writes = <<>>
    /\ boxes = <<>>
    /\ result = NoResult
    /\ build \in Builds
    /\ panicked = {}
    /\ pc = AllIdle
    /\ req = NoRequest
    /\ ptr_lock = 0
    /\ allocations_lock = 0
    /\ owner = [o \in Owners |-> IF o = 1 THEN OwnerIn("alive", 0) ELSE OwnerIn("none", 0)]
    /\ fp_strong = 1
    /\ deallocs = 0
    /\ chunked = NoChunked
    /\ plan = Plan("owners", TUnit, 0)

NextOwners ==
    \/ \E o \in Owners, src \in Owners : CloneFreePointer(o, src)
    \/ \E o \in Owners : CloneAllocations(o)
    \/ \E o \in Owners : DropOwner(o)
    \/ \E o \in Owners : DropFields(o)

SpecOwners == InitOwners /\ [][NextOwners]_vars

---------------------------------------------------------------------------
(* Clones of one AtomicSingleArena in use: thread t allocates through its    *)
(* own owner, the original (thread Main) or a clone made with                *)
(* #[derive(Clone)], as in atomic_single_allocation.  An owner holds size    *)
(* and start_pointer by value and, behind its two Arcs, the cell with the    *)
(* cursor and the count.                                                     *)

\* an owner in use: the cell its Arcs point to
OwnerOf(cell) == [st |-> "alive", src |-> 0, cell |-> cell]

CloneCells_Copies(a) == [cells |-> Append(chunks, chunks[a.cell]), cell |-> Len(chunks) + 1]

\* derive(Clone): free_pointer.clone() and allocations.clone() are Arc clones,
\* which point to the cell of the source; size and start_pointer are copied
CloneCells(a) == [cells |-> chunks, cell |-> a.cell]

\* let o = src.clone()
CloneArena(o, src) ==
    /\ plan.kind = "clones"
    /\ owner[o].st = "none"
    /\ owner[src].st = "alive"
    /\ chunks' = CloneCells(owner[src]).cells
    /\ owner' = [owner EXCEPT ![o] = OwnerOf(CloneCells(owner[src]).cell)]
    /\ fp_strong' = fp_strong + 1
    /\ UNCHANGED <<writes, boxes, result, build, panicked, pc, req, ptr_lock,
                   allocations_lock, deallocs, chunked, plan>>

InitClones ==
    /\ \E n \in AtomicSizes, s \in ChunkStarts : chunks = <<NewChunk(n, s)>>
    /\ writes = <<>>
    /\ boxes = <<>>
    /\ result = NoResult
    /\ build \in Builds
    /\ panicked = {}
    /\ pc = AllIdle
    /\ req = NoRequest
    /\ ptr_lock = 0
    /\ allocations_lock = 0
    /\ owner = [t \in Threads |->
                   IF t = Main THEN OwnerOf(1) ELSE [st |-> "none", src |-> 0, cell |-> 0]]
    /\ fp_strong = 1
    /\ deallocs = 0
    /\ chunked = NoChunked
    /\ plan = Plan("clones", TUnit, 0)

NextClones ==
    \/ \E o \in Threads, src \in Threads : CloneArena(o, src)
    \/ \E t \in Threads, T \in SmallTypes : AtomicAllocate(t, T)
    \/ \E t \in Threads : AtomicCheckAndWrite(t)
    \/ \E t \in Threads : AtomicCountAndReturn(t)
    \/ \E i \in 1..MaxAtomicBoxes : plan.kind = "clones" /\ DropBox(i)
    \/ \E i \in 1..MaxAtomicBoxes : plan.kind = "clones" /\ IntoInner(i)

SpecClones == InitClones /\ [][NextClones]_vars

---------------------------------------------------------------------------
(* Callers that also call the public trait method adjust_allocation_count   *)
(* themselves, on a SingleArena or on an AtomicSingleArena.                  *)

\* isize::MAX
IsizeMax == 2 ^ (UsizeBits - 1) - 1

\* the `count: isize` arguments the callers pass
Deltas == {0 - 1, 1, IsizeMax}

\* chunk.adjust_allocation_count(count), called by thread t (the thread that
\* made the chunk)
AdjustCall(t, count) ==
    /\ plan.kind \in {"single", "atomic"}
    /\ t = Main
    /\ t \notin panicked
    /\ pc[t] = "idle"
    /\ plan.done[t] < MaxAdjusts
    /\ plan' = [plan EXCEPT !.done[t] = @ + 1]
    /\ AdjustAllocationCount(1, count)
    /\ IF AdjustPanics(chunks[1], count)
       THEN /\ panicked' = panicked \cup {t}
            /\ result' = Ret("adjust", "panic", t, 0)
       ELSE /\ result' = Ret("adjust", "unit", t, 0)
            /\ UNCHANGED panicked
    /\ UNCHANGED <<writes, boxes, build, pc, req, ptr_lock, owner, fp_strong, deallocs, chunked>>

\* the objects these callers allocate: a zero-sized one and a one-byte one
CountTypes == {TUnit, TU8}

\* one chunk of either kind
InitCounts ==
    /\ InitSingle \/ InitAtomic
    /\ chunks[1].size = CountSize
    /\ chunks[1].start_pointer = HeapLow

NextCounts ==
    \/ \E t \in Threads, count \in Deltas : AdjustCall(t, count)
    \/ \E T \in CountTypes : SingleAllocate(T)
    \/ \E t \in Threads, T \in CountTypes : AtomicAllocate(t, T)
    \/ \E t \in Threads : AtomicCheckAndWrite(t)
    \/ \E t \in Threads : AtomicCountAndReturn(t)
    \/ \E i \in 1..MaxBoxes : DropBox(i)

SpecCounts == InitCounts /\ [][NextCounts]_vars

---------------------------------------------------------------------------
(* Callers of a SingleArena or an Arena that also drop the values they took  *)
(* out of their boxes with into_inner (into_inner_test).                     *)

NextExtract ==
    \/ NextSingle
    \/ NextArena
    \/ \E i \in 1..MaxBoxes + MaxArenaBoxes : DropValue(i)

SpecExtract == (InitSingle \/ InitArena) /\ [][NextExtract]_vars

---------------------------------------------------------------------------
(* The fixed chunks together, and all three allocators together *)

SpecChunks == (InitSingle \/ InitAtomic) /\ [][NextSingle \/ NextAtomic]_vars

SpecAll ==
    (InitSingle \/ InitAtomic \/ InitArena)
        /\ [][NextSingle \/ NextAtomic \/ NextArena]_vars

---------------------------------------------------------------------------
(* Properties *)

RECURSIVE SumSizes(_)
SumSizes(ws) == IF ws = <<>> THEN 0 ELSE Head(ws).size + SumSizes(Tail(ws))

InsideChunk(c, addr, size) == c.start_pointer <= addr /\ addr + size <= ChunkEnd(c)

\* C1: on a SingleArena of size N the cursor stays in [start, start+N], so the
\* bytes consumed (padding included) never exceed N, every object lies inside
\* the buffer, and remaining_capacity() is N - (cursor - start) >= 0.
C1_CursorWithinChunk ==
    plan.kind = "single" =>
        LET c == chunks[1] IN
        /\ c.start_pointer <= c.free_pointer
        /\ c.free_pointer <= c.start_pointer + c.size
        /\ SumSizes(writes) <= c.free_pointer - c.start_pointer
        /\ c.free_pointer - c.start_pointer <= c.size
        /\ \A i \in 1..Len(writes) : InsideChunk(c, writes[i].addr, writes[i].size)
        /\ ~RemainingUnderflows(c)
        /\ RemainingCapacity(c) = c.size - (c.free_pointer - c.start_pointer)
        /\ RemainingCapacity(c) >= 0

\* a chunk filled to its last byte by allocations that needed padding
C1_FullAfterPadding ==
    /\ plan.kind = "single"
    /\ Len(writes) >= 2
    /\ chunks[1].free_pointer = ChunkEnd(chunks[1])
    /\ SumSizes(writes) < chunks[1].size

\* the step in which thread t's allocate returns None
ReturnsNone(t) ==
    /\ result' = [op |-> "allocate", ret |-> "none", who |-> t]
    /\ boxes' = boxes
    /\ plan.kind = "atomic" => pc[t] = "lock" /\ pc'[t] = "idle"

\* C2: an allocate on a fixed chunk (SingleArena or AtomicSingleArena) that
\* returns None leaves the cursor, the live-allocation count and the buffer
\* bytes as they were.
C2_NoneChangesNothing ==
    [][\A t \in Threads : ReturnsNone(t) => UNCHANGED <<chunks, writes>>]_vars

\* None was returned by a chunk that holds objects and still has free bytes
C2_NoneWithBytesLeft ==
    /\ result.ret = "none"
    /\ Len(writes) > 0
    /\ chunks[1].allocations > 0
    /\ chunks[1].free_pointer < ChunkEnd(chunks[1])

\* C3: every box of a non-zero-size object holds an address that is a multiple
\* of the object's alignment (SingleArena, AtomicSingleArena and Arena).
C3_BoxesAligned ==
    /\ \A i \in 1..Len(boxes) : boxes[i].size > 0 => boxes[i].inner % boxes[i].align = 0
    /\ \A t \in Threads : pc[t] = "count" =>
           (chunks[1].free_pointer - req[t].size) % req[t].align = 0

PaddedBox(b) ==
    /\ b.size > 0
    /\ b.align > 1
    /\ b.inner # chunks[b.arena].start_pointer
    /\ \A j \in 1..Len(writes) : writes[j].addr + writes[j].size # b.inner

\* an aligned object was placed after padding, in an Arena chunk
C3_PaddedBoxInArena ==
    /\ plan.kind = "arena"
    /\ \E i \in 1..Len(boxes) : PaddedBox(boxes[i])

\* the step places an object in the chunk that was already the last one
PlacedInLastChunk ==
    /\ plan.kind = "arena"
    /\ Len(chunks') = Len(chunks)
    /\ Len(writes') = Len(writes) + 1

\* C4 (violated by the code): Arena::allocate places an object in the existing last chunk
\* only if its size plus the padding fits the remaining capacity, so no chunk's
\* cursor passes start+size and no object is written past the end of its chunk.
C4_ArenaPlacesOnlyIfPaddedFits ==
    /\ [][PlacedInLastChunk =>
             LET c == chunks[Len(chunks)]
                 w == writes'[Len(writes')]
             IN w.size + (w.addr - c.free_pointer) <= RemainingCapacity(c)]_vars
    /\ [](plan.kind = "arena" =>
             /\ \A i \in 1..Len(chunks) : chunks[i].free_pointer <= ChunkEnd(chunks[i])
             /\ \A i \in 1..Len(boxes) : boxes[i].size > 0 =>
                    InsideChunk(chunks[boxes[i].arena], boxes[i].inner, boxes[i].size))

\* C5 (violated by the code): every live Arena box still dereferences to the value it was
\* created with, and its bytes lie inside its chunk, which is still in the list.
C5_ArenaBoxesStayValid ==
    plan.kind = "arena" =>
        \A i \in 1..Len(boxes) :
            (boxes[i].state = "live" /\ boxes[i].size > 0) =>
                /\ Deref(boxes[i]) = boxes[i].val
                /\ boxes[i].arena \in 1..Len(chunks)
                /\ InsideChunk(chunks[boxes[i].arena], boxes[i].inner, boxes[i].size)

\* C6 (violated by the code): every Arena::allocate call returns a box (never "no
\* capacity", never a panic), and a call appends at most one chunk.
C6_ArenaAlwaysReturnsBox ==
    /\ [](plan.kind = "arena" /\ result.op = "allocate" => result.ret = "some")
    /\ [][plan.kind = "arena" => Len(chunks') <= Len(chunks) + 1]_vars

\* C7: the byte ranges of any two successful non-zero-size allocations on one
\* AtomicSingleArena are disjoint, whatever the interleaving of the threads.
C7_AtomicRangesDisjoint ==
    plan.kind = "atomic" =>
        /\ \A i, j \in 1..Len(writes) :
               i # j => ~Overlap(writes[i].addr, writes[i].size, writes[j].addr, writes[j].size)
        /\ \A i, j \in 1..Len(boxes) :
               i # j => ~Overlap(boxes[i].inner, boxes[i].size, boxes[j].inner, boxes[j].size)

\* two threads each hold a box of a non-zero-size object in the same chunk
C7_TwoThreadsHoldBoxes ==
    /\ plan.kind = "atomic"
    /\ \E i, j \in 1..Len(boxes) :
          /\ boxes[i].via # boxes[j].via
          /\ boxes[i].size > 0
          /\ boxes[j].size > 0
          /\ boxes[j].align > 1
          /\ boxes[j].inner > boxes[i].inner + boxes[i].size

\* C8 (violated by the code): on an AtomicSingleArena the cursor never passes start+size,
\* so remaining_capacity() never underflows.
C8_AtomicCursorWithinChunk ==
    plan.kind = "atomic" =>
        /\ chunks[1].free_pointer <= ChunkEnd(chunks[1])
        /\ ~RemainingUnderflows(chunks[1])
        /\ \A i \in 1..Len(writes) : InsideChunk(chunks[1], writes[i].addr, writes[i].size)

BufferBytes(c) == c.start_pointer .. (ChunkEnd(c) - 1)

\* C9: when two threads each make `rounds` allocations of an alignment-1 type of
\* size S on a shared chunk of capacity 2*rounds*S, no allocation of the rounds
\* returns None; once both are done all 2*rounds objects are placed, exactly N
\* bytes are consumed and every buffer byte holds a value one of the two threads
\* wrote; every later non-zero-size allocation returns None.
C9_RoundsFillTheChunk ==
    plan.kind = "rounds" =>
        LET c == chunks[1] IN
        /\ ~plan.extra => result.ret # "none"
        /\ Len(writes) <= Cardinality(Workers) * plan.rounds
        /\ c.free_pointer <= ChunkEnd(c)
        /\ RoundsDone =>
              /\ Len(writes) = Cardinality(Workers) * plan.rounds
              /\ c.free_pointer - c.start_pointer = c.size
              /\ c.size = Cardinality(Workers) * plan.rounds * plan.type.size
              /\ \A a \in BufferBytes(c) : ByteAt(a) \in {ThreadValue(t) : t \in Workers}
        /\ (plan.extra /\ \A t \in Threads : pc[t] = "idle") => result.ret = "none"
        /\ plan.extra => \A t \in Threads : pc[t] # "count"

\* both threads' values are in the full buffer and a further attempt was refused
C9_FullAndRefused ==
    /\ plan.kind = "rounds"
    /\ plan.rounds > 1
    /\ plan.extra
    /\ result.ret = "none"
    /\ \A t \in Workers : \E a \in BufferBytes(chunks[1]) : ByteAt(a) = ThreadValue(t)

Existing(o) == owner[o].st \in {"cloning", "alive", "dropped"}

\* C10: the buffer of a concurrent chunk is released at most once, and only by
\* an owner that is the only one left: at the release no other owner exists, and
\* none exists afterwards.
C10_ReleasedOnlyByLastOwner ==
    /\ [](plan.kind = "owners" =>
             /\ deallocs <= 1
             /\ deallocs = 1 =>
                    /\ \A o \in Owners : owner[o].st \notin {"cloning", "alive"}
                    /\ Cardinality({o \in Owners : Existing(o)}) <= 1)
    /\ [][(plan.kind = "owners" /\ deallocs' # deallocs) =>
             /\ deallocs' = 1
             /\ Cardinality({o \in Owners : Existing(o)}) = 1]_vars

\* the buffer was released after two clones had been made and dropped
C10_ReleasedAfterClones ==
    /\ plan.kind = "owners"
    /\ deallocs = 1
    /\ Cardinality({o \in Owners : owner[o].st = "gone"}) >= 2
    /\ owner[1].st = "gone"

AllOwnersGone == \A o \in Owners : owner[o].st \in {"none", "gone"}

\* C11 (violated by the code): once every owner of a concurrent chunk has been
\* dropped completely, on whatever threads, the buffer has been released exactly
\* once.
C11_ReleasedOnceAllDropped ==
    (plan.kind = "owners" /\ AllOwnersGone) => deallocs = 1

\* the step in which thread t's allocate finds the free_pointer mutex poisoned
FindsLockPoisoned(t) ==
    /\ pc[t] = "lock"
    /\ ptr_lock = Poisoned
    /\ pc'[t] = "idle"

\* C12 (violated by the code): an allocate on a concurrent chunk that cannot
\* take the cursor lock because it is poisoned ends fatally, never with a normal
\* result such as None.
C12_PoisonedLockIsFatal ==
    [][\A t \in Threads : FindsLockPoisoned(t) =>
          (result'.ret = "panic" /\ t \in panicked')]_vars

\* the live handles to non-zero-size objects placed in chunk ci
LiveHandles(ci) ==
    {i \in 1..Len(boxes) : boxes[i].arena = ci /\ boxes[i].size > 0 /\ boxes[i].state = "live"}

\* C13: in every state each chunk's live count is the number of handles to
\* non-zero-size objects placed in it that were neither released nor extracted
\* (SingleArena, AtomicSingleArena under any interleaving, and every chunk of an
\* Arena); so it is 0 when all handles are gone, and it never underflows.
C13_CountIsLiveHandles ==
    /\ \A ci \in 1..Len(chunks) :
           /\ chunks[ci].allocations = Cardinality(LiveHandles(ci))
           /\ chunks[ci].allocations >= 0
    /\ \A i \in 1..Len(boxes) : boxes[i].state # "leaked"
    /\ allocations_lock = 0

\* every handle of a chunk that held several is gone, by release and by
\* extraction, and the chunk's count is back to 0
C13_AllHandlesGone ==
    \E ci \in 1..Len(chunks) :
        /\ chunks[ci].allocations = 0
        /\ \E i, j \in 1..Len(boxes) :
              /\ boxes[i].arena = ci /\ boxes[i].state = "released"
              /\ boxes[j].arena = ci /\ boxes[j].state = "extracted"

\* the step releases (drops) handle i
Releases(i) ==
    /\ i \in 1..Len(boxes)
    /\ boxes[i].state = "live"
    /\ boxes'[i].state \in {"released", "leaked"}

\* C14: releasing a handle that has a back-reference takes exactly 1 from its
\* owning chunk's live count and leaves every other chunk's count as it was; the
\* chunk is notified and the value's teardown then runs, once: a released
\* handle's value has been torn down exactly once, a live one's never.
C14_ReleaseDecrementsOwnChunk ==
    /\ [][\A i \in 1..MaxBoxes + MaxArenaBoxes :
             (Releases(i) /\ boxes[i].arena # 0) =>
                 /\ Len(chunks') = Len(chunks)
                 /\ \A ci \in 1..Len(chunks) :
                        chunks'[ci].allocations =
                            IF ci = boxes[i].arena
                            THEN chunks[ci].allocations - 1
                            ELSE chunks[ci].allocations
                 /\ boxes'[i].state = "released"
                 /\ boxes'[i].teardowns = 1
                 /\ boxes[i].teardowns = 0]_vars
    /\ [](\A i \in 1..Len(boxes) :
             boxes[i].arena # 0 =>
                 boxes[i].teardowns = (IF boxes[i].state = "released" THEN 1 ELSE 0))

\* a handle into the second chunk of an Arena was released while a handle into
\* its first chunk is still live
C14_ReleasedInSecondChunk ==
    /\ Len(chunks) >= 2
    /\ chunks[1].allocations = 1
    /\ chunks[2].allocations = 0
    /\ \E i, j \in 1..Len(boxes) :
          /\ boxes[i].arena = 1 /\ boxes[i].state = "live"
          /\ boxes[j].arena = 2 /\ boxes[j].state = "released" /\ boxes[j].teardowns = 1

\* the step extracts the value of handle i
Extracts(i) ==
    /\ i \in 1..Len(boxes)
    /\ boxes[i].state = "live"
    /\ boxes'[i].state \in {"extracted", "leaked"}

\* C15 (violated by the code): into_inner takes exactly 1 from the owning
\* chunk's live count and consumes the handle without running its release path;
\* the value's teardown runs exactly once in total, when the caller drops the
\* extracted value: not before, and never twice.
C15_ExtractedValueTornDownOnce ==
    /\ [][\A i \in 1..MaxBoxes + MaxArenaBoxes :
             Extracts(i) =>
                 /\ boxes'[i].state = "extracted"
                 /\ boxes'[i].teardowns = boxes[i].teardowns
                 /\ boxes[i].arena # 0 =>
                        chunks'[boxes[i].arena].allocations =
                            chunks[boxes[i].arena].allocations - 1]_vars
    /\ [](\A i \in 1..Len(boxes) :
             /\ boxes[i].state = "extracted" => boxes[i].teardowns = 0
             /\ boxes[i].state = "consumed" => boxes[i].teardowns = 1)

\* the step returns a handle to a zero-size object
ReturnsZeroSized ==
    /\ Len(boxes') = Len(boxes) + 1
    /\ boxes'[Len(boxes')].size = 0

\* the step releases or extracts the zero-size handle i
GivesUpZeroSized(i) ==
    /\ i \in 1..Len(boxes)
    /\ boxes[i].size = 0
    /\ boxes[i].state = "live"
    /\ boxes'[i].state # "live"

\* C16: a zero-size allocation returns a detached handle (no arena) and changes
\* no chunk: cursor, remaining capacity and live count stay, nothing is written
\* and an Arena gets no chunk; releasing or extracting such a handle changes no
\* chunk either.  This holds for any number of repetitions.
C16_ZeroSizedChangesNothing ==
    /\ [][ReturnsZeroSized =>
             /\ boxes'[Len(boxes')].arena = 0
             /\ result'.ret = "some"
             /\ UNCHANGED <<chunks, writes, allocations_lock, ptr_lock>>]_vars
    /\ [][\A i \in 1..MaxBoxes + MaxArenaBoxes :
             GivesUpZeroSized(i) =>
                 /\ boxes'[i].state \in {"released", "extracted"}
                 /\ UNCHANGED <<chunks, writes, allocations_lock, panicked>>]_vars
    /\ [](\A i \in 1..Len(boxes) : boxes[i].size = 0 => boxes[i].arena = 0)

\* an Arena that handed out only zero-size handles, one of them released and
\* one extracted, and still has no chunk
C16_EmptyArenaAfterZeroSized ==
    /\ plan.kind = "arena"
    /\ chunks = <<>>
    /\ Len(boxes) >= MaxArenaBoxes
    /\ \E i, j \in 1..Len(boxes) :
          boxes[i].state = "released" /\ boxes[j].state = "extracted"

UsizeRange == 0 .. (UsizeModulus - 1)

\* C17: adjust_allocation_count(count), on a SingleArena or an
\* AtomicSingleArena, adds count to the live count; when the sum would be below
\* 0 or above usize::MAX (or the counter's lock cannot be taken) the call panics
\* and the stored count keeps its value: it is never a wrapped or clamped value.
C17_AdjustAppliesOrPanics ==
    /\ [][\A count \in Deltas :
             AdjustCall(Main, count) =>
                 LET n == chunks[1].allocations IN
                 IF n + count \in UsizeRange /\ allocations_lock = 0
                 THEN /\ chunks'[1].allocations = n + count
                      /\ result'.ret = "unit"
                      /\ panicked' = panicked
                 ELSE /\ chunks'[1].allocations = n
                      /\ result'.ret = "panic"
                      /\ Main \in panicked']_vars
    /\ [](plan.kind \in {"single", "atomic"} => chunks[1].allocations \in UsizeRange)

\* a direct call that would have taken the count above usize::MAX panicked
C17_OverflowRefused ==
    /\ result.op = "adjust"
    /\ result.ret = "panic"
    /\ chunks[1].allocations = UsizeModulus - 1

\* the step of an Arena changes the number of chunks
Grows == plan.kind = "arena" /\ Len(chunks') # Len(chunks)

\* C18: when Arena::allocate grows for an object of size s it appends exactly
\* one chunk, of capacity max(s, 4096), leaves the earlier chunks as they were
\* and places the object in the new chunk, at its aligned cursor; it grows only
\* when there is no chunk yet or the last chunk has fewer than s bytes left.
C18_GrowthAppendsOneFittedChunk ==
    [][Grows =>
         LET n == Len(chunks)
             c == chunks'[n + 1]
             w == writes'[Len(writes')]
             b == boxes'[Len(boxes')]
         IN
         /\ Len(chunks') = n + 1
         /\ \A i \in 1..n : chunks'[i] = chunks[i]
         /\ Len(writes') = Len(writes) + 1
         /\ Len(boxes') = Len(boxes) + 1
         /\ c.size = (IF w.size >= CHUNK_SIZE THEN w.size ELSE CHUNK_SIZE)
         /\ c.allocations = 1
         /\ b.arena = n + 1
         /\ b.inner = w.addr
         /\ b.size = w.size
         /\ c.start_pointer <= w.addr
         /\ w.addr < c.start_pointer + b.align
         /\ c.free_pointer = w.addr + w.size
         /\ result'.ret = "some"
         /\ n = 0 \/ w.size > ChunkEnd(chunks[n]) - chunks[n].free_pointer]_vars

\* an Arena grew for an object larger than the default chunk while its first,
\* default-sized chunk still had room for smaller objects
C18_GrewForLargeObject ==
    /\ plan.kind = "arena"
    /\ Len(chunks) = 2
    /\ chunks[1].size = CHUNK_SIZE
    /\ chunks[1].free_pointer < ChunkEnd(chunks[1])
    /\ chunks[2].size > CHUNK_SIZE
    /\ \E i \in 1..Len(boxes) : boxes[i].arena = 2 /\ boxes[i].size = chunks[2].size

\* C19 (violated by the code): an object of size >= 4096 for which the Arena
\* makes a chunk lies entirely inside that chunk, whatever the start address of
\* the new buffer and the alignment of the object: size + padding is at most the
\* new chunk's capacity.
C19_OversizedFitsItsChunk ==
    [][(Grows /\ Len(writes') = Len(writes) + 1
              /\ writes'[Len(writes')].size >= CHUNK_SIZE) =>
         LET c == chunks'[Len(chunks')]
             w == writes'[Len(writes')]
         IN
         /\ w.size + (w.addr - c.start_pointer) <= c.size
         /\ InsideChunk(c, w.addr, w.size)
         /\ c.free_pointer <= ChunkEnd(c)]_vars

\* ceil(k / CHUNK_SIZE)
CeilChunks(k) == (k + CHUNK_SIZE - 1) \div CHUNK_SIZE

SerialCapacity(c) == c.size \div plan.type.size

\* a call of allocate returned in this step of the loop
SerialCallReturns == plan.kind = "serial" /\ (writes' # writes \/ result' # result)

\* C21: successive alignment-1 allocations in a fresh fixed chunk of size N lie
\* one after the other from the chunk's start in the order of the calls (the
\* i-th one-byte value is the byte at offset i), exactly N one-byte allocations
\* succeed and the next one returns None.
C21_SerialFillsContiguously ==
    /\ [](plan.kind = "serial" =>
            LET c == chunks[1]
                sz == plan.type.size
                k == Len(writes)
            IN
            /\ Len(boxes) = k
            /\ k <= SerialCapacity(c)
            /\ c.free_pointer = c.start_pointer + k * sz
            /\ result.ret \in {"some", "none"}
            /\ result.ret = "none" => k = SerialCapacity(c)
            /\ \A i \in 1..k :
                   /\ writes[i].addr = c.start_pointer + (i - 1) * sz
                   /\ boxes[i].inner = writes[i].addr
                   /\ writes[i].val = i
                   /\ \A a \in RangeOf(writes[i].addr, sz) : ByteAt(a) = i)
    /\ [][SerialCallReturns =>
             IF Len(writes) < SerialCapacity(chunks[1])
             THEN result'.ret = "some" /\ Len(writes') = Len(writes) + 1
             ELSE result'.ret = "none" /\ UNCHANGED <<chunks, writes, boxes>>]_vars

\* a chunk of two or more bytes has been filled with one-byte objects and the
\* allocation after the last of them was refused
C21_FilledThenRefused ==
    /\ plan.kind = "serial" /\ plan.type = TU8
    /\ chunks[1].size >= 2
    /\ Len(writes) = chunks[1].size
    /\ chunks[1].free_pointer = ChunkEnd(chunks[1])
    /\ result.ret = "none"

\* C22: the Arena's chunk list is append-only: under allocate, release and
\* extract the number of chunks never decreases, and every chunk already in the
\* list keeps its position, its start address and its size.
C22_ChunkListAppendOnly ==
    [][plan.kind = "arena" =>
          /\ Len(chunks') >= Len(chunks)
          /\ \A i \in 1..Len(chunks) :
                 /\ chunks'[i].start_pointer = chunks[i].start_pointer
                 /\ chunks'[i].size = chunks[i].size]_vars

\* an Arena that has grown to two chunks, with one box released and one extracted
C22_TwoChunksAfterReleaseAndExtract ==
    /\ plan.kind = "arena"
    /\ Len(chunks) = 2
    /\ \E i, j \in 1..Len(boxes) :
           /\ boxes[i].state = "released" /\ boxes[i].arena = 1
           /\ boxes[j].state = "extracted" /\ boxes[j].arena = 2

\* the cursor of chunk ci before this step (a chunk made in this step starts
\* with its cursor at its start)
CursorBefore(ci) ==
    IF ci \in DOMAIN chunks THEN chunks[ci].free_pointer ELSE chunks'[ci].start_pointer

\* an allocation wrote its object into chunk ci in this step
WritesInto(ci) ==
    LET w == writes'[Len(writes')] IN
    /\ CursorBefore(ci) <= w.addr
    /\ chunks'[ci].free_pointer = w.addr + w.size

\* C23: within one chunk the cursor never moves backwards, every successful
\* allocation of a non-zero-size object moves it strictly forwards, and the
\* addresses of the boxes one thread got from the chunk increase strictly in
\* the order of its allocations.
C23_CursorOnlyAdvances ==
    /\ [][/\ \A ci \in 1..Len(chunks') : chunks'[ci].free_pointer >= CursorBefore(ci)
          /\ writes' # writes =>
                \E ci \in 1..Len(chunks') :
                    WritesInto(ci) /\ chunks'[ci].free_pointer > CursorBefore(ci)]_vars
    /\ [](\A i, j \in 1..Len(boxes) :
              (/\ i < j
               /\ boxes[i].arena # 0
               /\ boxes[i].arena = boxes[j].arena
               /\ boxes[i].via = boxes[j].via) => boxes[i].inner < boxes[j].inner)

\* one thread of the concurrent chunk holds two boxes, the later one higher up
C23_ThreadHoldsTwoBoxes ==
    /\ plan.kind = "atomic"
    /\ \E i, j \in 1..Len(boxes) :
           /\ i < j
           /\ boxes[i].via = boxes[j].via
           /\ boxes[i].arena = 1 /\ boxes[j].arena = 1
           /\ boxes[i].inner < boxes[j].inner

\* box i, which belongs to a chunk, is released or extracted in this step
GivenUp(i) ==
    /\ boxes[i].arena # 0
    /\ boxes[i].state = "live"
    /\ boxes'[i].state # "live"

\* the handle of box i is gone (released, or extracted with into_inner)
HandleGone(i) == boxes[i].state \in {"released", "extracted", "consumed"}

\* releasing or extracting leaves the chunk's cursor, capacity and buffer alone
ReleaseKeepsChunk ==
    \A i \in 1..Len(boxes) : GivenUp(i) =>
        LET ci == boxes[i].arena IN
        /\ Len(chunks') = Len(chunks)
        /\ chunks'[ci].free_pointer = chunks[ci].free_pointer
        /\ chunks'[ci].start_pointer = chunks[ci].start_pointer
        /\ chunks'[ci].size = chunks[ci].size
        /\ RemainingCapacity(chunks'[ci]) = RemainingCapacity(chunks[ci])
        /\ deallocs' = deallocs

\* no allocation is given bytes of an object whose handle is gone
GoneBytesNotReused ==
    writes' # writes =>
        LET w == writes'[Len(writes')] IN
        \A i \in 1..Len(boxes) :
            HandleGone(i) => ~Overlap(w.addr, w.size, boxes[i].inner, boxes[i].size)

\* C24 (violated by the code): releasing or extracting a handle reclaims no
\* memory: the owning chunk's cursor, remaining capacity and buffer stay as they
\* are, also when the live count reaches 0, and no later allocation is given
\* bytes of the released object.
C24_ReleaseReclaimsNothing ==
    [][ReleaseKeepsChunk /\ GoneBytesNotReused]_vars

Alive(o) == owner[o].st = "alive"

\* what owner o observes: get_start_pointer_mut(), get_free_pointer_mut(),
\* remaining_capacity() and the allocations count
ViewOf(o) ==
    LET c == chunks[owner[o].cell] IN
    [start |-> c.start_pointer, cursor |-> c.free_pointer,
     remaining |-> RemainingCapacity(c), allocations |-> c.allocations]

\* C25: cloning a concurrent chunk reserves no new buffer, and the clone shares
\* buffer, cursor and live count with its source: every owner observes the same
\* values, and an allocation or a handle release made through any owner shows
\* in the cursor, remaining capacity and live count seen through every other.
C25_ClonesShareState ==
    /\ [](plan.kind = "clones" =>
             \A o \in Threads : Alive(o) =>
                 /\ ViewOf(o) = ViewOf(Main)
                 /\ ViewOf(o).start = chunks[1].start_pointer)
    /\ [][plan.kind = "clones" =>
             \A o \in Threads : Alive(o) =>
                 /\ writes' # writes =>
                        LET w == writes'[Len(writes')] IN
                        /\ ViewOf(o)'.cursor = w.addr + w.size
                        /\ ViewOf(o)'.cursor > ViewOf(o).cursor
                        /\ ViewOf(o)'.remaining =
                               WrappingSub(ViewOf(o).remaining, ViewOf(o)'.cursor - ViewOf(o).cursor)
                 /\ Len(boxes') > Len(boxes) /\ boxes'[Len(boxes')].arena # 0 =>
                        ViewOf(o)'.allocations = ViewOf(o).allocations + 1
                 /\ \A i \in 1..Len(boxes) :
                        GivenUp(i) => ViewOf(o)'.allocations = ViewOf(o).allocations - 1]_vars

\* the original still holds a box while a box allocated through a clone has
\* been released: both owners see one live allocation
C25_ReleasedThroughClone ==
    /\ plan.kind = "clones"
    /\ \E o \in Threads \ {Main} :
           /\ Alive(o)
           /\ ViewOf(o).allocations = 1 /\ ViewOf(Main).allocations = 1
           /\ \E i, j \in 1..Len(boxes) :
                  /\ boxes[i].via = o /\ boxes[i].arena # 0 /\ boxes[i].state = "released"
                  /\ boxes[j].via = Main /\ boxes[j].arena # 0 /\ boxes[j].state = "live"

\* C26: creating a chunk with capacity 0 returns None and reserves nothing;
\* creating one with capacity n > 0 returns a chunk whose cursor is at its
\* start, whose remaining capacity is n and whose live count is 0.
C26_NewChecksSize ==
    [][plan.kind = "create" =>
          IF plan.type.size = 0
          THEN /\ result'.ret = "none"
               /\ chunks' = <<>>
               /\ plan'.kind = "create"
          ELSE /\ result'.ret = "some"
               /\ Len(chunks') = 1
               /\ chunks'[1].size = plan.type.size
               /\ chunks'[1].free_pointer = chunks'[1].start_pointer
               /\ RemainingCapacity(chunks'[1]) = plan.type.size
               /\ chunks'[1].allocations = 0]_vars

\* new(0) has returned None, and nothing was reserved
C26_ZeroSizeRefused ==
    /\ plan.kind = "create" /\ plan.type.size = 0
    /\ result = [op |-> "new", ret |-> "none", who |-> Main]
    /\ chunks = <<>>

\* thread t takes the lock to write with the padding it computed before
WritesUnchecked(t) == pc[t] = "unchecked" /\ pc'[t] = "count"

\* C27 (violated by the code): on a concurrent chunk every allocation path
\* computes the padding and bumps the cursor against the same cursor value in
\* one critical section: under any interleaving every object is written at an
\* address aligned for it, and no padding comes from a stale cursor.
C27_PaddingFromCurrentCursor ==
    /\ [](plan.kind = "unchecked" =>
             /\ \A i \in 1..Len(boxes) : boxes[i].inner % boxes[i].align = 0
             /\ \A t \in Threads : pc[t] = "count" =>
                    writes[Len(writes)].addr % req[t].align = 0)
    /\ [][\A t \in Threads : WritesUnchecked(t) =>
              req[t].offset = AlignOffset(chunks[CellOf(t)].free_pointer, req[t].align)]_vars

\* thread t is blocked in free_pointer.lock() / in allocations.lock()
WaitsForCursor(t) == pc[t] \in {"lock", "capacity"}
WaitsForCounter(t) == pc[t] \in {"count", "notify"}

\* C28: no interleaving of allocate, remaining_capacity, release and extract by
\* the threads sharing one concurrent chunk deadlocks: no thread asks for a lock
\* it holds, no thread asks for the cursor lock while holding the counter lock
\* (the only nesting is cursor, then counter), and under fair scheduling every
\* operation a thread has started completes.
C28_NoDeadlock ==
    /\ [](plan.kind = "locks" =>
             \A t \in Threads :
                 /\ WaitsForCursor(t) => ptr_lock # t /\ allocations_lock # t
                 /\ WaitsForCounter(t) => allocations_lock # t)
    /\ \A t \in Threads : (pc[t] # "idle") ~> (pc[t] = "idle")

\* a thread that releases a box waits for the counter lock while another
\* thread, inside allocate, holds both locks
C28_WaitsForHolderOfBoth ==
    /\ plan.kind = "locks"
    /\ \E t, u \in Threads :
           /\ t # u
           /\ pc[t] = "notify"
           /\ pc[u] = "counting"
           /\ ptr_lock = u /\ allocations_lock = u

\* the chunks that are no longer the last one after this step
EarlierChunks == 1 .. (Len(chunks') - 1)

\* C29: Arena::allocate allocates into the last chunk only: once a chunk has
\* been appended, the cursor of every earlier chunk never changes again, and
\* the live count of an earlier chunk can only go down.
C29_OnlyLastChunkAllocates ==
    [][plan.kind = "arena" =>
          /\ \A i \in EarlierChunks :
                 /\ i \in DOMAIN chunks
                 /\ chunks'[i].free_pointer = chunks[i].free_pointer
                 /\ chunks'[i].allocations <= chunks[i].allocations
          /\ (Len(boxes') > Len(boxes) /\ boxes'[Len(boxes')].arena # 0) =>
                 boxes'[Len(boxes')].arena = Len(chunks')]_vars

\* the first chunk was left with an unused tail when the second was appended,
\* its box has been released since, and the second chunk holds a live box
C29_TailAbandoned ==
    /\ plan.kind = "arena"
    /\ Len(chunks) = 2
    /\ chunks[1].free_pointer < ChunkEnd(chunks[1])
    /\ chunks[1].allocations = 0
    /\ chunks[2].allocations = 1
    /\ \E i \in 1..Len(boxes) : boxes[i].arena = 1 /\ boxes[i].state = "released"

\* what a caller can observe of a chunk list: per chunk its size, the offset
\* of its cursor and its live count
ChunkView(cs) ==
    [i \in 1..Len(cs) |->
        [size |-> cs[i].size,
         offset |-> cs[i].free_pointer - cs[i].start_pointer,
         allocations |-> cs[i].allocations]]

\* both revisions have handled the same calls, none of a zero-size object
SameNonZeroCalls ==
    /\ plan.kind = "pair"
    /\ plan.done[Main] = ArenaCalls
    /\ \A i \in 1..Len(boxes) : boxes[i].size # 0

\* the chunks the two revisions hold so far start at addresses that agree
\* modulo every alignment in use
StartsCongruent ==
    \A i \in (1..Len(chunks)) \cap (1..Len(chunked.chunks)) :
        chunks[i].start_pointer % MaxAlign(ArenaTypes)
            = chunked.chunks[i].start_pointer % MaxAlign(ArenaTypes)

SameObservation ==
    /\ ChunkView(chunks) = ChunkView(chunked.chunks)
    /\ (Main \in panicked) = chunked.panicked

\* C30: after the same sequence of non-zero-size allocations, served by an
\* allocator that places their chunks alike (starts that agree modulo the
\* alignments), the Arena of arena_allocator.rs and the Arena<C> of chunked.rs
\* have the same number of chunks, the same chunk sizes, the same cursor
\* offsets and the same live counts, and either both calls unwound or neither.
C30_RevisionsAgree ==
    (SameNonZeroCalls /\ StartsCongruent) => SameObservation

\* both revisions grew a second chunk for the same three objects
C30_BothGrewTwice ==
    /\ SameNonZeroCalls
    /\ StartsCongruent
    /\ Len(boxes) = 3
    /\ Len(chunks) = 2
    /\ Len(chunked.chunks) = 2
    /\ chunks[1].start_pointer # chunked.chunks[1].start_pointer

====
